---- MODULE Spec2Model ----
(***************************************************************************)
(* The storage and labelling layer of src/src/db_utils.py: one SQLite file *)
(* (db_path) holding the table users(user_id, cluster_id, label,           *)
(* embedding) with primary key (user_id, cluster_id), and the five         *)
(* functions that create, fill, read and relabel it.                       *)
(*                                                                         *)
(* Every function opens its own connection.  A connection's writes are     *)
(* private to it until conn.commit(); a connection that is dropped with    *)
(* writes pending rolls them back, and keeps SQLite's write lock on the    *)
(* file until the Python runtime finalizes it.                             *)
(***************************************************************************)
EXTENDS Integers, Sequences, FiniteSets, TLC

VARIABLES
    db,     \* the store: [exists, hasTable, users, locked]
    pc,     \* "idle" | "label" (inside label_users' loop) | "done"
    op,     \* the function being run, or last run
    arg,    \* its argument: [reset, clusters, annot, tie]
    pre,    \* the store when the call started
    idx,    \* label_users: 1-based position in cluster_ids
    ret,    \* how the call ended
    out,    \* get_unlabeled_clusters: the list returned
    inited  \* whether init_database has been called

vars == <<db, pc, op, arg, pre, idx, ret, out, inited>>

(***************************************************************************)
(* Bounds of the model.                                                    *)
(***************************************************************************)
\* cluster entries in one clusters file
MaxClusters == 2
\* user-id tokens in one cluster entry
MaxUsers == 2
\* rows of one annotation table
MaxAnn == 2
\* rows of one annotation table where label_users is checked as a function
MaxVotes == 3

(***************************************************************************)
(* Input domains.                                                          *)
(***************************************************************************)
\* raw user-id tokens of the clusters file, as character sequences
Tokens == { <<"@", "a">>, <<"@", "b">> }

\* user ids of the annotation table
AnnUserIds == { <<"a">>, <<"b">> }

\* cluster ids of the annotation table
AnnClusterIds == 0 .. (MaxClusters - 1)

\* label values of the annotation table; "NaN" is a missing value
AnnLabels == { "Yes", "No", "NaN" }

RECURSIVE SeqsUpTo(_, _)
SeqsUpTo(S, n) ==
    IF n = 0 THEN { <<>> }
    ELSE LET shorter == SeqsUpTo(S, n - 1)
         IN  shorter \cup { Append(s, x) : s \in shorter, x \in S }

\* the embedding vector the upstream clustering job computed for an account
EmbeddingOf(token) == IF token = <<"@", "a">> THEN <<1, 3>> ELSE <<2, 5>>

\* one entry of the clusters file: (cluster_embeds, cluster_userids), the
\* embedding matrix holding one row per token
Entry(tokens) ==
    [ embeds  |-> [ j \in 1 .. Len(tokens) |-> EmbeddingOf(tokens[j]) ],
      userids |-> tokens ]

ClusterFiles ==
    SeqsUpTo({ Entry(t) : t \in SeqsUpTo(Tokens, MaxUsers) }, MaxClusters)

AnnotRows ==
    [ user_id : AnnUserIds, cluster_id : AnnClusterIds, label : AnnLabels ]

AnnotTables == SeqsUpTo(AnnotRows, MaxAnn)

NoArg == [ reset |-> FALSE, clusters |-> <<>>, annot |-> <<>>, tie |-> "first" ]

(***************************************************************************)
(* The store.                                                              *)
(***************************************************************************)
\* label column: 0 - unassigned, 1 - not bot, 2 - bot
Unassigned == 0
NotBot == 1
Bot == 2

\* no db file: nothing on disk
NoStore == [ exists |-> FALSE, hasTable |-> FALSE, users |-> {}, locked |-> FALSE ]

\* the primary key (user_id, cluster_id) of a row
Key(r) == <<r.user_id, r.cluster_id>>

Keys(table) == { Key(r) : r \in table }

(***************************************************************************)
(* init_database                                                           *)
(***************************************************************************)
\* init_database with the test on reset left out
init_database_IgnoreReset(store, reset) ==
    IF ~store.exists
    THEN [ exists |-> TRUE, hasTable |-> TRUE, users |-> {}, locked |-> FALSE ]
    ELSE store

\* os.remove and CREATE TABLE when the file is missing or reset is set;
\* nothing at all otherwise.  The new file carries no lock of the old one.
init_database(store, reset) ==
    IF ~store.exists \/ reset
    THEN [ exists |-> TRUE, hasTable |-> TRUE, users |-> {}, locked |-> FALSE ]
    ELSE store

(***************************************************************************)
(* load_clusters                                                           *)
(***************************************************************************)
RECURSIVE Pow2(_)
Pow2(n) == IF n = 0 THEN 1 ELSE 2 * Pow2(n - 1)

RECURSIVE Log2(_)
Log2(v) == IF v < 2 THEN 0 ELSE 1 + Log2(v \div 2)

\* numpy's astype(float32).tobytes() of one positive integer value below
\* 2^24: sign 0, biased exponent, 23 mantissa bits, little-endian
Float32Bytes(v) ==
    LET e    == Log2(v)
        bits == (127 + e) * Pow2(23) + (v - Pow2(e)) * Pow2(23 - e)
    IN  << bits % 256, (bits \div 256) % 256,
           (bits \div 65536) % 256, bits \div 16777216 >>

RECURSIVE VectorBytes(_)
VectorBytes(vec) ==
    IF vec = <<>> THEN <<>>
    ELSE Float32Bytes(Head(vec)) \o VectorBytes(Tail(vec))

\* cluster_userids[user][1:]
StripPrefix(token) == Tail(token)

\* the parameters of the INSERTs of one cluster entry, in loop order
ClusterRows(cluster, cluster_index) ==
    [ user \in 1 .. Len(cluster.userids) |->
        [ user_id    |-> StripPrefix(cluster.userids[user]),
          cluster_id |-> cluster_index,
          embedding  |-> VectorBytes(cluster.embeds[user]) ] ]

\* SourceRows counting only the entries that have users
RECURSIVE SourceRows_SkipEmpty(_, _)
SourceRows_SkipEmpty(clusters, cluster_index) ==
    IF clusters = <<>> THEN <<>>
    ELSE ClusterRows(Head(clusters), cluster_index)
            \o SourceRows_SkipEmpty(Tail(clusters),
                    IF Head(clusters).userids = <<>> THEN cluster_index
                    ELSE cluster_index + 1)

\* enumerate(clusters): the INSERTs of the whole file, in loop order
RECURSIVE SourceRows(_, _)
SourceRows(clusters, cluster_index) ==
    IF clusters = <<>> THEN <<>>
    ELSE ClusterRows(Head(clusters), cluster_index)
            \o SourceRows(Tail(clusters), cluster_index + 1)

\* INSERT INTO users (user_id, cluster_id, embedding): label takes its
\* default 0; a row with the same primary key makes the statement fail
InsertRow(table, p) ==
    table \cup { [ user_id |-> p.user_id, cluster_id |-> p.cluster_id,
                   label |-> Unassigned, embedding |-> p.embedding ] }

\* the INSERTs rows[n], rows[n+1], ... on the connection's private copy
RECURSIVE InsertRows(_, _, _)
InsertRows(table, rows, n) ==
    IF n > Len(rows) THEN [ ok |-> TRUE, table |-> table ]
    ELSE IF <<rows[n].user_id, rows[n].cluster_id>> \in Keys(table)
         THEN [ ok |-> FALSE, table |-> table ]
         ELSE InsertRows(InsertRow(table, rows[n]), rows, n + 1)

\* load_clusters on a connection in autocommit mode: every INSERT is
\* committed as it is executed
load_clusters_Autocommit(store, clusters) ==
    LET conn == [ store EXCEPT !.exists = TRUE ]
        rows == SourceRows(clusters, 0)
        run  == InsertRows(store.users, rows, 1)
    IN  IF rows = <<>>
        THEN [ db |-> conn, ret |-> "True", pending |-> FALSE ]
        ELSE IF ~store.hasTable \/ store.locked
        THEN [ db |-> conn, ret |-> "False", pending |-> FALSE ]
        ELSE [ db |-> [ conn EXCEPT !.users = run.table ],
               ret |-> IF run.ok THEN "True" ELSE "False", pending |-> FALSE ]

\* The whole call.  sqlite3.connect creates the file.  Without a table, or
\* with the write lock held by a leaked connection, the first INSERT
\* raises; with no INSERT at all the commit succeeds.  pending: the call
\* failed with its transaction open (the connection is never closed).
load_clusters(store, clusters) ==
    LET conn == [ store EXCEPT !.exists = TRUE ]
        rows == SourceRows(clusters, 0)
        run  == InsertRows(store.users, rows, 1)
    IN  IF rows = <<>>
        THEN [ db |-> conn, ret |-> "True", pending |-> FALSE ]
        ELSE IF ~store.hasTable \/ store.locked
        THEN [ db |-> conn, ret |-> "False", pending |-> FALSE ]
        ELSE IF run.ok
        THEN [ db |-> [ conn EXCEPT !.users = run.table ],
               ret |-> "True", pending |-> FALSE ]
        ELSE [ db |-> conn, ret |-> "False", pending |-> TRUE ]

(***************************************************************************)
(* get_unlabeled_clusters                                                  *)
(***************************************************************************)
\* the rows of a table in the order the storage engine returns them
RECURSIVE Scan(_)
Scan(table) ==
    IF table = {} THEN <<>>
    ELSE LET r == CHOOSE x \in table : TRUE
         IN  <<r>> \o Scan(table \ {r})

Range(s) == { s[i] : i \in 1 .. Len(s) }

\* DISTINCT: each value once, in order of first appearance
RECURSIVE Distinct(_)
Distinct(s) ==
    IF s = <<>> THEN <<>>
    ELSE LET front == Distinct(SubSeq(s, 1, Len(s) - 1))
             last  == s[Len(s)]
         IN  IF last \in Range(front) THEN front ELSE Append(front, last)

\* the SELECT without DISTINCT
SelectUnlabeled_NoDistinct(table) ==
    LET hits == SelectSeq(Scan(table), LAMBDA r : r.label = 0)
    IN  [ i \in 1 .. Len(hits) |-> hits[i].cluster_id ]

\* SELECT DISTINCT cluster_id FROM users WHERE label = 0, as a list
SelectUnlabeled(table) ==
    LET hits == SelectSeq(Scan(table), LAMBDA r : r.label = 0)
    IN  Distinct([ i \in 1 .. Len(hits) |-> hits[i].cluster_id ])

\* The whole call: the connect creates the file; the SELECT raises when
\* the table is missing; a reader is not blocked by the write lock.
get_unlabeled_clusters(store) ==
    LET conn == [ store EXCEPT !.exists = TRUE ]
    IN  IF ~store.hasTable
        THEN [ db |-> conn, ret |-> "OperationalError", out |-> <<>> ]
        ELSE [ db |-> conn, ret |-> "ok", out |-> SelectUnlabeled(store.users) ]

(***************************************************************************)
(* label_users                                                             *)
(***************************************************************************)
Column(rows, name) == [ i \in 1 .. Len(rows) |-> rows[i][name] ]

\* pandas' Series.unique(): the values in order of first appearance
Unique(s) == Distinct(s)

\* annot_information['cluster_id'].unique()
ClusterIds(annot) == Unique(Column(annot, "cluster_id"))

\* annot_information[annot_information['cluster_id'] == cluster_id]
ClusterAnnot(annot, cluster_id) ==
    SelectSeq(annot, LAMBDA row : row.cluster_id = cluster_id)

Count(rows, label) ==
    Cardinality({ i \in 1 .. Len(rows) : rows[i].label = label })

\* MaxLabel taking the first label present instead of the most frequent
MaxLabel_First(cluster_annot, tie) ==
    LET seen == SelectSeq(cluster_annot, LAMBDA row : row.label # "NaN")
    IN  IF seen = <<>> THEN "ValueError" ELSE seen[1].label

\* cluster_annot['label'].value_counts().idxmax().  value_counts drops the
\* missing values; idxmax of an empty count raises ValueError.  On equal
\* counts the answer is the first entry of the sorted counts: under "first"
\* the tied label seen first in the rows, under "last" the other one.
MaxLabel(cluster_annot, tie) ==
    LET yes   == Count(cluster_annot, "Yes")
        no    == Count(cluster_annot, "No")
        seen  == SelectSeq(cluster_annot, LAMBDA row : row.label # "NaN")
        other == IF seen[1].label = "Yes" THEN "No" ELSE "Yes"
    IN  IF yes = 0 /\ no = 0 THEN "ValueError"
        ELSE IF yes > no THEN "Yes"
        ELSE IF no > yes THEN "No"
        ELSE IF tie = "first" THEN seen[1].label ELSE other

\* whether idxmax has equal counts to choose between
HasTie(annot) ==
    \E c \in Range(ClusterIds(annot)) :
        /\ Count(ClusterAnnot(annot, c), "Yes") = Count(ClusterAnnot(annot, c), "No")
        /\ Count(ClusterAnnot(annot, c), "Yes") > 0

\* LabelValue as a lookup of the two known values that defaults to 0
LabelValue_Lookup(label) ==
    IF label = "Yes" THEN 2 ELSE IF label = "No" THEN 1 ELSE 0

\* 2 if label == 'Yes' else 1
LabelValue(label) == IF label = "Yes" THEN Bot ELSE NotBot

\* UPDATE users SET label = ? WHERE cluster_id = ?
UpdateCluster(table, label, cluster_id) ==
    { IF r.cluster_id = cluster_id THEN [ r EXCEPT !.label = label ] ELSE r :
        r \in table }

\* UPDATE users SET label = ? WHERE user_id = ?
UpdateUser(table, label, user_id) ==
    { IF r.user_id = user_id THEN [ r EXCEPT !.label = label ] ELSE r :
        r \in table }

\* cluster_annot[cluster_annot['user_id'] == user_id]['label'].values[0]
UserLabel(cluster_annot, user_id) ==
    SelectSeq(cluster_annot, LAMBDA row : row.user_id = user_id)[1].label

\* the loop over the annotated users of one cluster, from user_ids[n] on
RECURSIVE UpdateUsers(_, _, _, _)
UpdateUsers(table, cluster_annot, user_ids, n) ==
    IF n > Len(user_ids) THEN table
    ELSE UpdateUsers(
            UpdateUser(table, LabelValue(UserLabel(cluster_annot, user_ids[n])),
                       user_ids[n]),
            cluster_annot, user_ids, n + 1)

\* ClusterUpdates with the labels already stored for the cluster counted as
\* votes beside the annotation rows
ClusterUpdates_Tally(table, cluster_annot, cluster_id, tie) ==
    LET yes == Count(cluster_annot, "Yes")
                 + Cardinality({ r \in table : r.cluster_id = cluster_id /\ r.label = 2 })
        no  == Count(cluster_annot, "No")
                 + Cardinality({ r \in table : r.cluster_id = cluster_id /\ r.label = 1 })
        max_label == IF yes > no THEN "Yes"
                     ELSE IF no > yes THEN "No"
                     ELSE MaxLabel(cluster_annot, tie)
    IN  UpdateUsers(
            UpdateCluster(table, LabelValue(max_label), cluster_id),
            cluster_annot, Unique(Column(cluster_annot, "user_id")), 1)

\* the statements of one loop iteration, on the connection's private copy
ClusterUpdates(table, cluster_annot, cluster_id, tie) ==
    UpdateUsers(
        UpdateCluster(table, LabelValue(MaxLabel(cluster_annot, tie)), cluster_id),
        cluster_annot, Unique(Column(cluster_annot, "user_id")), 1)

\* One iteration of the loop over cluster_ids, up to its conn.commit().
\* idxmax raises before any statement; the first UPDATE raises when the
\* table is missing or the write lock is held.
LabelCluster(store, annot, tie, k) ==
    LET cluster_id    == ClusterIds(annot)[k]
        cluster_annot == ClusterAnnot(annot, cluster_id)
    IN  IF MaxLabel(cluster_annot, tie) = "ValueError"
        THEN [ db |-> store, ret |-> "ValueError" ]
        ELSE IF ~store.hasTable \/ store.locked
        THEN [ db |-> store, ret |-> "OperationalError" ]
        ELSE [ db  |-> [ store EXCEPT !.users =
                           ClusterUpdates(@, cluster_annot, cluster_id, tie) ],
               ret |-> "ok" ]

\* the loop from cluster_ids[k] on, to the return or the exception
RECURSIVE LabelFrom(_, _, _, _)
LabelFrom(store, annot, tie, k) ==
    IF k > Len(ClusterIds(annot)) THEN [ db |-> store, ret |-> "ok", at |-> k ]
    ELSE LET step == LabelCluster(store, annot, tie, k)
         IN  IF step.ret # "ok"
             THEN [ db |-> step.db, ret |-> step.ret, at |-> k ]
             ELSE LabelFrom(step.db, annot, tie, k + 1)

\* the whole call: sqlite3.connect creates the file, then the loop
label_users(store, annot, tie) ==
    LabelFrom([ store EXCEPT !.exists = TRUE ], annot, tie, 1)

(***************************************************************************)
(* The state machine.  A call runs from "idle" to "done"; Return is the    *)
(* caller taking the result (or the exception) and dropping it.            *)
(***************************************************************************)
Init ==
    /\ db = NoStore
    /\ pc = "idle"
    /\ op = "none"
    /\ arg = NoArg
    /\ pre = NoStore
    /\ idx = 0
    /\ ret = "none"
    /\ out = <<>>
    /\ inited = FALSE

InitDatabase ==
    /\ pc = "idle"
    /\ \E reset \in BOOLEAN :
        /\ db' = init_database(db, reset)
        /\ arg' = [ NoArg EXCEPT !.reset = reset ]
    /\ pc' = "done"
    /\ op' = "init_database"
    /\ pre' = db
    /\ ret' = "ok"
    /\ inited' = TRUE
    /\ UNCHANGED <<idx, out>>

\* A failed call leaves its connection, never closed, with the transaction
\* open: the runtime may finalize it at once (the rollback frees the lock)
\* or later (Collect).
LoadClusters ==
    /\ pc = "idle"
    /\ \E clusters \in ClusterFiles :
        LET r == load_clusters(db, clusters)
        IN  /\ arg' = [ NoArg EXCEPT !.clusters = clusters ]
            /\ ret' = r.ret
            /\ \E leaked \in (IF r.pending THEN BOOLEAN ELSE { db.locked }) :
                 db' = [ r.db EXCEPT !.locked = leaked ]
    /\ pc' = "done"
    /\ op' = "load_clusters"
    /\ pre' = db
    /\ UNCHANGED <<idx, out, inited>>

GetUnlabeledClusters ==
    /\ pc = "idle"
    /\ LET r == get_unlabeled_clusters(db)
       IN  /\ db' = r.db
           /\ ret' = r.ret
           /\ out' = r.out
    /\ pc' = "done"
    /\ op' = "get_unlabeled_clusters"
    /\ arg' = NoArg
    /\ pre' = db
    /\ UNCHANGED <<idx, inited>>

\* label_users up to its loop: the connection and cluster_ids
LabelUsers ==
    /\ pc = "idle"
    /\ \E annot \in AnnotTables :
       \E tie \in (IF HasTie(annot) THEN { "first", "last" } ELSE { "first" }) :
            arg' = [ NoArg EXCEPT !.annot = annot, !.tie = tie ]
    /\ db' = [ db EXCEPT !.exists = TRUE ]
    /\ pc' = "label"
    /\ op' = "label_users"
    /\ pre' = db
    /\ idx' = 1
    /\ ret' = "none"
    /\ UNCHANGED <<out, inited>>

\* one iteration of the loop: committed, or the exception leaves the call
LabelIteration ==
    /\ pc = "label"
    /\ idx <= Len(ClusterIds(arg.annot))
    /\ LET r == LabelCluster(db, arg.annot, arg.tie, idx)
       IN  /\ db' = r.db
           /\ IF r.ret = "ok"
              THEN /\ idx' = idx + 1
                   /\ UNCHANGED <<pc, ret>>
              ELSE /\ pc' = "done"
                   /\ ret' = r.ret
                   /\ UNCHANGED idx
    /\ UNCHANGED <<op, arg, pre, out, inited>>

\* the loop is over: conn.close() and the return
LabelReturn ==
    /\ pc = "label"
    /\ idx > Len(ClusterIds(arg.annot))
    /\ pc' = "done"
    /\ ret' = "ok"
    /\ UNCHANGED <<db, op, arg, pre, idx, out, inited>>

Return ==
    /\ pc = "done"
    /\ pc' = "idle"
    /\ op' = "none"
    /\ arg' = NoArg
    /\ pre' = NoStore
    /\ idx' = 0
    /\ ret' = "none"
    /\ out' = <<>>
    /\ UNCHANGED <<db, inited>>

\* the runtime finalizes a leaked connection: its transaction is rolled
\* back and the write lock is free again
Collect ==
    /\ pc = "idle"
    /\ db.locked
    /\ db' = [ db EXCEPT !.locked = FALSE ]
    /\ UNCHANGED <<pc, op, arg, pre, idx, ret, out, inited>>

Next ==
    \/ InitDatabase
    \/ LoadClusters
    \/ GetUnlabeledClusters
    \/ LabelUsers
    \/ LabelIteration
    \/ LabelReturn
    \/ Return
    \/ Collect

Spec == Init /\ [][Next]_vars

(***************************************************************************)
(* label_users as a function of the store and the annotation table: the    *)
(* call starts on any table holding both accounts in both clusters, with   *)
(* any labels, and runs to its end.                                        *)
(***************************************************************************)
StoredRow(token, cluster_id, label) ==
    [ user_id    |-> StripPrefix(token),
      cluster_id |-> cluster_id,
      label      |-> label,
      embedding  |-> VectorBytes(EmbeddingOf(token)) ]

VoteTables ==
    { { StoredRow(k[1], k[2], labels[k]) : k \in Tokens \X AnnClusterIds } :
        labels \in [ Tokens \X AnnClusterIds -> { Unassigned, NotBot, Bot } ] }

InitVote ==
    /\ \E table \in VoteTables :
        db = [ exists |-> TRUE, hasTable |-> TRUE, users |-> table,
               locked |-> FALSE ]
    /\ pc = "label"
    /\ op = "label_users"
    /\ \E annot \in SeqsUpTo(AnnotRows, MaxVotes) :
       \E tie \in (IF HasTie(annot) THEN { "first", "last" } ELSE { "first" }) :
            arg = [ NoArg EXCEPT !.annot = annot, !.tie = tie ]
    /\ pre = db
    /\ idx = 1
    /\ ret = "none"
    /\ out = <<>>
    /\ inited = TRUE

NextVote ==
    \/ LabelIteration
    \/ LabelReturn

SpecVote == InitVote /\ [][NextVote]_vars

(***************************************************************************)
(* Properties.                                                             *)
(***************************************************************************)
Done(f) == pc = "done" /\ op = f

\* label_users returned normally
Completed == Done("label_users") /\ ret = "ok"

\* the row of a table with a given primary key, as a set of at most one row
RowsAt(table, user_id, cluster_id) ==
    { r \in table : r.user_id = user_id /\ r.cluster_id = cluster_id }

\* the (user_id, cluster_id) pairs a clusters file asks to insert, in order
SourceKeys(clusters) ==
    LET rows == SourceRows(clusters, 0)
    IN  [ n \in 1 .. Len(rows) |-> <<rows[n].user_id, rows[n].cluster_id>> ]

\* some INSERT of the file must fail on the primary key: a pair comes twice
\* in the file, or is in the table already
KeyConflict(clusters, table) ==
    LET keys == SourceKeys(clusters)
    IN  \/ \E m, n \in 1 .. Len(keys) : m < n /\ keys[m] = keys[n]
        \/ \E n \in 1 .. Len(keys) : keys[n] \in Keys(table)

\* the rows the failed call had inserted on its connection before it failed
InsertedBeforeFailure ==
    InsertRows(pre.users, SourceRows(arg.clusters, 0), 1).table \ pre.users

\* C1: load_clusters is all-or-nothing.  A call one of whose INSERTs fails
\* on the primary key returns False; and whenever the call returns False
\* the table read by any later connection is the table from before the call
\* (none of the rows it had inserted is there), a leaked connection holding
\* at most the write lock, never rows.
C1_LoadAllOrNothing ==
    Done("load_clusters") =>
        /\ ret \in { "True", "False" }
        /\ KeyConflict(arg.clusters, pre.users) => ret = "False"
        /\ ret = "False" =>
            /\ db.users = pre.users
            /\ db.hasTable = pre.hasTable
            /\ get_unlabeled_clusters(db).out = get_unlabeled_clusters(pre).out

\* C1 witness: a call on a table with rows failed after it had inserted rows
C1_Witness ==
    /\ Done("load_clusters")
    /\ ret = "False"
    /\ pre.users # {}
    /\ pre.hasTable /\ ~pre.locked
    /\ InsertedBeforeFailure # {}
    /\ db.users = pre.users

\* what the claim expects of a file: entry i (1-based) has cluster id i - 1,
\* each of its tokens gives <<user_id, cluster_id, label>>
ExpectedRecords(clusters) ==
    UNION { { <<Tail(clusters[i].userids[j]), i - 1, Unassigned>> :
                j \in 1 .. Len(clusters[i].userids) } :
            i \in 1 .. Len(clusters) }

RECURSIVE TokenCount(_)
TokenCount(clusters) ==
    IF clusters = <<>> THEN 0
    ELSE Len(Head(clusters).userids) + TokenCount(Tail(clusters))

\* C7: a successful load_clusters on a store without rows gives entry i of
\* the file (0-based) the cluster id i and inserts one record per token:
\* user_id the token without its first character, cluster_id i, label 0.
\* Entries without users insert nothing and keep their id; an empty file
\* inserts nothing and returns True.
C7_LoadAssignsIds ==
    Done("load_clusters") =>
        /\ (ret = "True" /\ pre.users = {}) =>
            /\ { <<r.user_id, r.cluster_id, r.label>> : r \in db.users }
                 = ExpectedRecords(arg.clusters)
            /\ Cardinality(db.users) = TokenCount(arg.clusters)
        /\ arg.clusters = <<>> => (ret = "True" /\ db.users = pre.users)

\* C7 witness: a file whose first entry has no users and whose second has
\* two was loaded into an empty table: both records carry cluster id 1
C7_Witness ==
    /\ Done("load_clusters")
    /\ ret = "True"
    /\ pre.users = {}
    /\ Len(arg.clusters) = 2
    /\ arg.clusters[1].userids = <<>>
    /\ Len(arg.clusters[2].userids) = 2
    /\ Cardinality(db.users) = 2
    /\ \A r \in db.users : r.cluster_id = 1 /\ r.label = Unassigned

\* C6: init_database(reset) leaves an empty users table (which
\* get_unlabeled_clusters reads as the empty list) when the file did not
\* exist or reset is set, and leaves the store as it was, every record and
\* label, when the file exists and reset is not set.
C6_InitStorage ==
    Done("init_database") =>
        IF ~pre.exists \/ arg.reset
        THEN /\ db.exists /\ db.hasTable
             /\ db.users = {}
             /\ get_unlabeled_clusters(db).ret = "ok"
             /\ get_unlabeled_clusters(db).out = <<>>
        ELSE db = pre

\* C6 witness: a reset destroyed a table holding labelled records
C6_Witness ==
    /\ Done("init_database")
    /\ arg.reset
    /\ \E r \in pre.users : r.label # Unassigned
    /\ db.users = {}

\* the cluster ids with at least one record still labelled 0
UnassignedClusters(table) ==
    { c \in { r.cluster_id : r \in table } :
        \E r \in table : r.cluster_id = c /\ r.label = Unassigned }

\* C5 (as amended): wherever the users table exists, get_unlabeled_clusters
\* returns each cluster id that has a record labelled 0 once and no other
\* id: the clusters of a completed label_users call are not in it, a
\* cluster all of whose records are still 0 is.  Where the db file exists
\* without the table the call raises.
C5_UnlabeledWhenTableExists ==
    /\ Done("get_unlabeled_clusters") =>
        IF pre.hasTable
        THEN /\ ret = "ok"
             /\ Range(out) = UnassignedClusters(db.users)
             /\ Len(out) = Cardinality(Range(out))
        ELSE ret = "OperationalError"
    /\ Completed =>
        \A c \in Range(ClusterIds(arg.annot)) :
            c \notin Range(get_unlabeled_clusters(db).out)
    /\ db.hasTable =>
        \A c \in { r.cluster_id : r \in db.users } :
            (\A r \in db.users : r.cluster_id = c => r.label = Unassigned)
                => c \in Range(get_unlabeled_clusters(db).out)

\* C5 as stated, for the call sequences that hold an init_database call:
\* get_unlabeled_clusters returns the cluster ids that have a record
\* labelled 0, each once
C5_UnlabeledInEveryState ==
    (Done("get_unlabeled_clusters") /\ inited) =>
        /\ ret = "ok"
        /\ Range(out) = UnassignedClusters(db.users)
        /\ Len(out) = Cardinality(Range(out))

\* C5 witness: the call returned one id, of a cluster with two unlabelled
\* records, and left out a cluster whose records are all labelled
C5_Witness ==
    /\ Done("get_unlabeled_clusters")
    /\ ret = "ok"
    /\ Len(out) = 1
    /\ Cardinality({ r \in db.users : r.cluster_id = out[1] /\ r.label = Unassigned }) = 2
    /\ \E r \in db.users : r.cluster_id # out[1]

\* the user ids that appear in some annotation row
AnnotatedUsers(annot) == Range(Column(annot, "user_id"))

\* C2: after a completed label_users, for every annotated cluster whose
\* "Yes" and "No" counts differ, every record of the cluster whose user_id
\* is in no annotation row is Bot if "Yes" is the label of more than half
\* of the cluster's annotation rows, NotBot if "No" is.
C2_MajorityVote ==
    Completed =>
        \A c \in Range(ClusterIds(arg.annot)) :
            LET rows == ClusterAnnot(arg.annot, c)
                yes  == Count(rows, "Yes")
                no   == Count(rows, "No")
            IN  yes # no =>
                  \A r \in db.users :
                    (r.cluster_id = c /\ r.user_id \notin AnnotatedUsers(arg.annot)) =>
                        /\ 2 * yes > Len(rows) => r.label = Bot
                        /\ 2 * no > Len(rows) => r.label = NotBot

\* C2 witness: a cluster annotated No, Yes, Yes: its member that nobody
\* annotated, NotBot before the call, is Bot after it
C2_Witness ==
    /\ Completed
    /\ \E c \in Range(ClusterIds(arg.annot)) :
        /\ Column(ClusterAnnot(arg.annot, c), "label") = <<"No", "Yes", "Yes">>
        /\ \E r \in db.users :
            /\ r.cluster_id = c
            /\ r.user_id \notin AnnotatedUsers(arg.annot)
            /\ r.label = Bot
            /\ [ r EXCEPT !.label = NotBot ] \in pre.users

\* C4: label_users is idempotent: on the store a call left behind, the
\* same call again ends the same way and leaves every record as it is.
C4_Idempotent ==
    Done("label_users") =>
        LET again == label_users(db, arg.annot, arg.tie)
        IN  /\ again.db.users = db.users
            /\ again.ret = ret

\* C4 witness: a completed call over two clusters changed labels
C4_Witness ==
    /\ Completed
    /\ Len(ClusterIds(arg.annot)) = 2
    /\ \E r \in db.users : r.label # Unassigned /\ r \notin pre.users
    /\ \E r \in pre.users : r.label # Unassigned /\ r \notin db.users

\* the label the claims expect for an annotation value
ExpectedLabel(value) == IF value = "Yes" THEN Bot ELSE NotBot

\* every annotation row is about a record of the table
AnnotationInStore(annot, table) ==
    \A i \in 1 .. Len(annot) :
        RowsAt(table, annot[i].user_id, annot[i].cluster_id) # {}

\* C3: after a completed label_users every annotation row (u, C, Yes/No)
\* has its record (u, C) labelled Bot/NotBot, whatever else the table
\* holds.  (Stated for the tables all of whose rows are about records of
\* the store, and for the rows whose pair (u, C) is annotated with one
\* label only.)
C3_ExplicitAnnotationWins ==
    (Completed /\ AnnotationInStore(arg.annot, pre.users)) =>
        \A i \in 1 .. Len(arg.annot) :
            LET row == arg.annot[i]
            IN  ( /\ row.label \in { "Yes", "No" }
                  /\ \A j \in 1 .. Len(arg.annot) :
                        ( /\ arg.annot[j].user_id = row.user_id
                          /\ arg.annot[j].cluster_id = row.cluster_id )
                            => arg.annot[j].label = row.label )
                => \A r \in RowsAt(db.users, row.user_id, row.cluster_id) :
                        r.label = ExpectedLabel(row.label)

\* the cluster ids label_users had committed / had not yet committed when
\* it stopped at position idx
CommittedClusters == { ClusterIds(arg.annot)[j] : j \in 1 .. (idx - 1) }
UncommittedClusters ==
    { ClusterIds(arg.annot)[j] : j \in idx .. Len(ClusterIds(arg.annot)) }

\* C8: label_users commits once per cluster in order of first appearance:
\* when the call fails in its k-th cluster, the records of the first k-1
\* clusters are labelled and the records of the k-th and later clusters
\* have the labels they had before the call.  (Stated for the tables all of
\* whose rows are about records of the store.)
C8_CommitPerCluster ==
    (Done("label_users") /\ ret # "ok" /\ AnnotationInStore(arg.annot, pre.users)) =>
        /\ \A r \in db.users :
            r.cluster_id \in CommittedClusters => r.label # Unassigned
        /\ \A r \in db.users :
            r.cluster_id \in UncommittedClusters => r \in pre.users

\* C10: label_users changes nothing but the labels of the records whose
\* cluster_id is in the annotation table: the same keys, the same
\* embeddings, and the same label on every record of another cluster.
\* (Stated for the tables all of whose rows are about records of the
\* store.)
C10_LabelFrame ==
    (Done("label_users") /\ AnnotationInStore(arg.annot, pre.users)) =>
        /\ Keys(db.users) = Keys(pre.users)
        /\ \A r \in db.users :
            \E q \in pre.users :
                /\ Key(q) = Key(r)
                /\ q.embedding = r.embedding
                /\ r.cluster_id \notin Range(ClusterIds(arg.annot))
                        => r.label = q.label

\* init_database removed the file and created it anew
ResetStep == pc = "idle" /\ op' = "init_database" /\ arg'.reset

\* C9: every record's label is 0, 1 or 2 in every reachable state, with
\* any label values in the annotation table, and a label that is not 0 is
\* not 0 after any step but a reset of the store.
C9_LabelsStayAssigned ==
    /\ [](\A r \in db.users : r.label \in { Unassigned, NotBot, Bot })
    /\ [][ ResetStep \/
           \A r \in db.users :
              r.label # Unassigned =>
                \E q \in db'.users : Key(q) = Key(r) /\ q.label # Unassigned
         ]_vars

\* C9 witness: a call whose annotation row carries neither "Yes" nor "No"
\* overwrote that user's Bot label with NotBot
C9_Witness ==
    /\ Completed
    /\ \E i \in 1 .. Len(arg.annot) :
        /\ arg.annot[i].label = "NaN"
        /\ \E r \in db.users :
            /\ r.user_id = arg.annot[i].user_id
            /\ r.cluster_id = arg.annot[i].cluster_id
            /\ r.label = NotBot
            /\ [ r EXCEPT !.label = Bot ] \in pre.users

====
